---------------------------- MODULE Spec2Model ----------------------------
(***************************************************************************)
(* The stateless token lifecycle and credential verification of            *)
(* fastapi-auth: core/config.py (settings), core/security.py (token codec, *)
(* credential hasher), auth/service.py (login), auth/router.py (refresh,   *)
(* logout), core/dependencies.py (access-token check) and the user store   *)
(* they read (users/models.py, users/crud.py).                             *)
(*                                                                         *)
(* Spec serves one request at a time, SpecCodec applies the codec alone,   *)
(* SpecConcurrent interleaves requests suspended at their store lookup.    *)
(*                                                                         *)
(* Time is the wall clock in whole seconds: both create_*_token            *)
(* (int(now.timestamp())) and the JWT library (timegm(utcnow())) read the  *)
(* clock truncated to seconds, and every TTL is a whole number of seconds. *)
(***************************************************************************)
EXTENDS Integers, Sequences, FiniteSets, TLC

VARIABLES
    users,      \* the users table: id -> row, or None
    now,        \* the wall clock, whole seconds
    resp,       \* the last request served and the response it got
    settings,   \* the process configuration: the environment, and what Settings() made of it
    inflight    \* the requests suspended at an await: slot -> what the coroutine holds

vars == <<users, now, resp, settings, inflight>>

(***************************************************************************)
(* Bounds and input domains                                                *)
(***************************************************************************)
MaxAdvances == 2

MaxMintOffset == 1

UserIds == {1, 2}

Emails == {"a@x.com", "b@x.com"}

Passwords == {"P@ss1234", "wrong"}

None == [form |-> "none"]

(***************************************************************************)
(* core/config.py                                                          *)
(***************************************************************************)
\* the default of os.getenv("SECRET_KEY", ...)
DefaultSecretKey == "your-secret-key-change-in-production-minimum-32-characters-required"

\* SECRET_KEY of the environment: not set, or set to a string
EnvUnset == [form |-> "unset"]

EnvSet(text) == [form |-> "set", text |-> text]

EnvSecrets == { EnvUnset, EnvSet(""), EnvSet("0123456789abcdef0123456789abcde") }

os_getenv(env, default) == IF env.form = "set" THEN env.text ELSE default

MinSecretKeyLength == 32

\* mutant: the length check is off by one
Settings_off_by_one(env) ==
    LET key == os_getenv(env, DefaultSecretKey) IN
    IF Len(key) < MinSecretKeyLength - 1
    THEN [phase |-> "failed", env |-> env, SECRET_KEY |-> ""]
    ELSE [phase |-> "loaded", env |-> env, SECRET_KEY |-> key]

\* Settings.__init__: the fields are read, then the length of SECRET_KEY is
\* checked; a ValueError ends the import of core.config and the process
Settings(env) ==
    LET key == os_getenv(env, DefaultSecretKey) IN
    IF Len(key) < MinSecretKeyLength
    THEN [phase |-> "failed", env |-> env, SECRET_KEY |-> ""]
    ELSE [phase |-> "loaded", env |-> env, SECRET_KEY |-> key]

\* settings.SECRET_KEY, as the codec reads it on every call
SECRET_KEY == settings.SECRET_KEY

\* the module-level settings = Settings() has run and did not raise
Running == settings.phase = "loaded"

ALGORITHM == "HS256"

ACCESS_TOKEN_EXPIRE_MINUTES == 30

REFRESH_TOKEN_EXPIRE_DAYS == 7

\* timedelta(minutes=...) and timedelta(days=...) in seconds
AccessTTL == ACCESS_TOKEN_EXPIRE_MINUTES * 60

RefreshTTL == REFRESH_TOKEN_EXPIRE_DAYS * 24 * 60 * 60

TTL(kind) == IF kind = "access" THEN AccessTTL ELSE RefreshTTL

(***************************************************************************)
(* The clock.  It starts at StartTime and moves forward by one second, by  *)
(* one access TTL or by one refresh TTL, at most MaxAdvances times.        *)
(***************************************************************************)
StartTime == 1700000000

ClockSteps == {1, AccessTTL, RefreshTTL}

TimePoints ==
    { StartTime + a + b * AccessTTL + c * RefreshTTL :
        <<a, b, c>> \in { t \in (0..MaxAdvances) \X (0..MaxAdvances) \X (0..MaxAdvances) :
                            t[1] + t[2] + t[3] <= MaxAdvances } }

(***************************************************************************)
(* str(user_id) and int(sub): decimal text as a sequence of digits         *)
(***************************************************************************)
Digits == <<"0", "1", "2", "3", "4", "5", "6", "7", "8", "9">>

RECURSIVE str(_)
str(n) ==
    IF n < 10 THEN <<Digits[n + 1]>>
    ELSE str(n \div 10) \o <<Digits[(n % 10) + 1]>>

DigitVal(c) == CHOOSE d \in 0..9 : Digits[d + 1] = c

RECURSIVE int(_)
int(s) ==
    IF Len(s) = 1 THEN DigitVal(s[1])
    ELSE 10 * int(SubSeq(s, 1, Len(s) - 1)) + DigitVal(s[Len(s)])

(***************************************************************************)
(* Credential hasher (passlib CryptContext, argon2).  A hash is the scheme,*)
(* the salt and the digest of (password, salt); the digest is one-way and  *)
(* collision free.  A string no scheme identifies makes verify raise.      *)
(***************************************************************************)
Salts == {"salt1"}

Digest(password, salt) == <<password, salt>>

pwd_context_hash(password, salt) ==
    [form |-> "argon2", salt |-> salt, digest |-> Digest(password, salt)]

hash_password(password, salt) == pwd_context_hash(password, salt)

MalformedHash == [form |-> "unknown", text |-> "not-a-hash"]

\* mutant: the digest is not compared
verify_password_ignores_digest(plain_password, hashed_password) ==
    IF hashed_password.form # "argon2"
    THEN [raised |-> TRUE, value |-> FALSE]
    ELSE [raised |-> FALSE, value |-> TRUE]

\* [raised |-> TRUE] is passlib's UnknownHashError
verify_password(plain_password, hashed_password) ==
    IF hashed_password.form # "argon2"
    THEN [raised |-> TRUE, value |-> FALSE]
    ELSE [raised |-> FALSE,
          value  |-> Digest(plain_password, hashed_password.salt) = hashed_password.digest]

(***************************************************************************)
(* Token codec (python-jose).  A signed token is its claim set and an      *)
(* HMAC over it; a string that is not three segments is garbage.           *)
(***************************************************************************)
Sign(key, payload) == <<key, ALGORITHM, payload>>

jwt_encode(payload, key) ==
    [form |-> "jwt", payload |-> payload, sig |-> Sign(key, payload)]

\* mutant: the lifetime is not added to the expiry
create_access_token_without_lifetime(user_id, t) ==
    jwt_encode([sub  |-> str(user_id),
                exp  |-> t,
                iat  |-> t,
                type |-> "access"], SECRET_KEY)

\* mutant: the subject does not follow the user id
create_access_token_constant_subject(user_id, t) ==
    jwt_encode([sub  |-> str(1),
                exp  |-> t + AccessTTL,
                iat  |-> t,
                type |-> "access"], SECRET_KEY)

\* mutant: the lifetime in minutes is added as seconds
create_access_token_lifetime_in_seconds(user_id, t) ==
    jwt_encode([sub  |-> str(user_id),
                exp  |-> t + ACCESS_TOKEN_EXPIRE_MINUTES,
                iat  |-> t,
                type |-> "access"], SECRET_KEY)

create_access_token(user_id, t) ==
    jwt_encode([sub  |-> str(user_id),
                exp  |-> t + AccessTTL,
                iat  |-> t,
                type |-> "access"], SECRET_KEY)

\* mutant: the refresh token is tagged with the access kind
create_refresh_token_tagged_access(user_id, t) ==
    jwt_encode([sub  |-> str(user_id),
                exp  |-> t + RefreshTTL,
                iat  |-> t,
                type |-> "access"], SECRET_KEY)

\* mutant: the refresh token gets the lifetime of the access token
create_refresh_token_access_lifetime(user_id, t) ==
    jwt_encode([sub  |-> str(user_id),
                exp  |-> t + AccessTTL,
                iat  |-> t,
                type |-> "refresh"], SECRET_KEY)

create_refresh_token(user_id, t) ==
    jwt_encode([sub  |-> str(user_id),
                exp  |-> t + RefreshTTL,
                iat  |-> t,
                type |-> "refresh"], SECRET_KEY)

Ok(payload) == [ok |-> TRUE, payload |-> payload, error |-> ""]

Err(msg) == [ok |-> FALSE, payload |-> None, error |-> msg]

\* jose.jwt._validate_exp: the token is expired when exp < now
jwt_expired(payload, t) == payload.exp < t

\* jose.jwt.decode: parse, verify the signature, validate exp
jwt_decode(token, key, t) ==
    IF token.form # "jwt" THEN Err("Not enough segments")
    ELSE IF token.sig # Sign(key, token.payload)
         THEN Err("Signature verification failed.")
    ELSE IF "exp" \in DOMAIN token.payload /\ jwt_expired(token.payload, t)
         THEN Err("Signature has expired.")
    ELSE Ok(token.payload)

\* mutant: only the type field is required
TokenPayloadValid_type_only(payload) ==
    /\ "type" \in DOMAIN payload
    /\ payload.type \in {"access", "refresh"}

\* pydantic: TokenPayload(**payload)
TokenPayloadValid(payload) ==
    /\ {"sub", "exp", "iat", "type"} \subseteq DOMAIN payload
    /\ payload.type \in {"access", "refresh"}

\* mutant: the kind of the token is not compared with the expected kind
decode_token_any_kind(token, expected_type, t) ==
    LET r == jwt_decode(token, SECRET_KEY, t) IN
    IF ~r.ok THEN Err("Invalid token: " \o r.error)
    ELSE IF ~TokenPayloadValid(r.payload) THEN Err("Invalid token payload")
    ELSE Ok(r.payload)

decode_token(token, expected_type, t) ==
    LET r == jwt_decode(token, SECRET_KEY, t) IN
    IF ~r.ok THEN Err("Invalid token: " \o r.error)
    ELSE IF ~TokenPayloadValid(r.payload) THEN Err("Invalid token payload")
    ELSE IF r.payload.type # expected_type
         THEN Err("Invalid token type. Expected " \o expected_type
                    \o ", got " \o r.payload.type)
    ELSE Ok(r.payload)

(***************************************************************************)
(* User store (users/crud.py)                                              *)
(***************************************************************************)
EmailOf(id) == IF id = 1 THEN "a@x.com" ELSE "b@x.com"

UserRow(id, hashed, active) ==
    [form |-> "user", id |-> id, email |-> EmailOf(id),
     hashed_password |-> hashed, is_active |-> active]

get_user_by_email(db, email) ==
    IF \E id \in UserIds : db[id] # None /\ db[id].email = email
    THEN db[CHOOSE id \in UserIds : db[id] # None /\ db[id].email = email]
    ELSE None

get_user_by_id(db, user_id) ==
    IF user_id \in UserIds THEN db[user_id] ELSE None

(***************************************************************************)
(* Responses                                                               *)
(***************************************************************************)
Response(op, req, status, kind, detail, access, refresh, steps) ==
    [op |-> op, req |-> req, status |-> status, kind |-> kind, detail |-> detail,
     access_token |-> access, refresh_token |-> refresh, steps |-> steps]

NoRequest == [form |-> "none"]

\* the coroutines the event loop can hold at one time
Slots == {1, 2}

Idle == [pc |-> "idle"]

Init ==
    /\ inflight = [s \in Slots |-> Idle]
    /\ users = [id \in UserIds |-> None]
    /\ now = StartTime
    /\ resp = Response("none", NoRequest, 0, "none", "", None, None, <<>>)
    /\ \E env \in EnvSecrets :
          settings = [phase |-> "unloaded", env |-> env, SECRET_KEY |-> ""]

\* settings = Settings(), once, when core.config is first imported
LoadSettings ==
    /\ settings.phase = "unloaded"
    /\ settings' = Settings(settings.env)
    /\ UNCHANGED <<users, now, resp, inflight>>

(***************************************************************************)
(* Environment: the store's owner and the passage of time                  *)
(***************************************************************************)
\* crud.create_user: the row is created active, with a fresh salt
CreateUser(id, password, salt) ==
    /\ Running
    /\ users[id] = None
    /\ users' = [users EXCEPT ![id] = UserRow(id, hash_password(password, salt), TRUE)]
    /\ UNCHANGED <<now, resp, settings, inflight>>

SetActive(id, active) ==
    /\ users[id] # None
    /\ users[id].is_active # active
    /\ users' = [users EXCEPT ![id].is_active = active]
    /\ UNCHANGED <<now, resp, settings, inflight>>

SetHash(id, hashed) ==
    /\ users[id] # None
    /\ users[id].hashed_password # hashed
    /\ users' = [users EXCEPT ![id].hashed_password = hashed]
    /\ UNCHANGED <<now, resp, settings, inflight>>

DeleteUser(id) ==
    /\ users[id] # None
    /\ users' = [users EXCEPT ![id] = None]
    /\ UNCHANGED <<now, resp, settings, inflight>>

Advance(d) ==
    /\ now + d \in TimePoints
    /\ now' = now + d
    /\ UNCHANGED <<users, resp, settings, inflight>>

(***************************************************************************)
(* auth/service.py                                                         *)
(***************************************************************************)
\* authenticate_user: [user, raised, steps]
authenticate_user(db, email, password) ==
    LET user == get_user_by_email(db, email) IN
    IF user = None
    THEN [user |-> None, raised |-> FALSE, steps |-> <<"get_user_by_email">>]
    ELSE LET v == verify_password(password, user.hashed_password) IN
         [user   |-> IF ~v.raised /\ v.value THEN user ELSE None,
          raised |-> v.raised,
          steps  |-> <<"get_user_by_email", "verify_password">>]

\* mutant: an unknown email gets its own error
login_user_reveals_unknown_email(db, email, password, t) ==
    LET req == [form |-> "login", email |-> email, password |-> password]
        a   == authenticate_user(db, email, password)
    IN
    IF get_user_by_email(db, email) = None
    THEN Response("login", req, 404, "HTTPException", "User not found",
                  None, None, a.steps)
    ELSE IF a.raised
    THEN Response("login", req, 500, "UnknownHashError", "Internal Server Error",
                  None, None, a.steps)
    ELSE IF a.user = None
    THEN Response("login", req, 401, "AuthenticationError", "Invalid email or password",
                  None, None, a.steps)
    ELSE IF ~a.user.is_active
    THEN Response("login", req, 401, "InactiveUserError", "Inactive user account",
                  None, None, a.steps)
    ELSE Response("login", req, 200, "Token", "",
                  create_access_token(a.user.id, t),
                  create_refresh_token(a.user.id, t),
                  a.steps \o <<"create_access_token", "create_refresh_token">>)

\* mutant: the active flag is not checked
login_user_skips_active_check(db, email, password, t) ==
    LET req == [form |-> "login", email |-> email, password |-> password]
        a   == authenticate_user(db, email, password)
    IN
    IF a.raised
    THEN Response("login", req, 500, "UnknownHashError", "Internal Server Error",
                  None, None, a.steps)
    ELSE IF a.user = None
    THEN Response("login", req, 401, "AuthenticationError", "Invalid email or password",
                  None, None, a.steps)
    ELSE Response("login", req, 200, "Token", "",
                  create_access_token(a.user.id, t),
                  create_refresh_token(a.user.id, t),
                  a.steps \o <<"create_access_token", "create_refresh_token">>)

\* mutant: the active flag is checked before the password
login_user_checks_active_first(db, email, password, t) ==
    LET req  == [form |-> "login", email |-> email, password |-> password]
        a    == authenticate_user(db, email, password)
        user == get_user_by_email(db, email)
    IN
    IF user # None /\ ~user.is_active
    THEN Response("login", req, 401, "InactiveUserError", "Inactive user account",
                  None, None, <<"get_user_by_email">>)
    ELSE IF a.raised
    THEN Response("login", req, 500, "UnknownHashError", "Internal Server Error",
                  None, None, a.steps)
    ELSE IF a.user = None
    THEN Response("login", req, 401, "AuthenticationError", "Invalid email or password",
                  None, None, a.steps)
    ELSE Response("login", req, 200, "Token", "",
                  create_access_token(a.user.id, t),
                  create_refresh_token(a.user.id, t),
                  a.steps \o <<"create_access_token", "create_refresh_token">>)

\* mutant: the inactive account is answered with 403
login_user_inactive_forbidden(db, email, password, t) ==
    LET req == [form |-> "login", email |-> email, password |-> password]
        a   == authenticate_user(db, email, password)
    IN
    IF a.raised
    THEN Response("login", req, 500, "UnknownHashError", "Internal Server Error",
                  None, None, a.steps)
    ELSE IF a.user = None
    THEN Response("login", req, 401, "AuthenticationError", "Invalid email or password",
                  None, None, a.steps)
    ELSE IF ~a.user.is_active
    THEN Response("login", req, 403, "InactiveUserError", "Inactive user account",
                  None, None, a.steps)
    ELSE Response("login", req, 200, "Token", "",
                  create_access_token(a.user.id, t),
                  create_refresh_token(a.user.id, t),
                  a.steps \o <<"create_access_token", "create_refresh_token">>)

login_user(db, email, password, t) ==
    LET req == [form |-> "login", email |-> email, password |-> password]
        a   == authenticate_user(db, email, password)
    IN
    IF a.raised
    THEN Response("login", req, 500, "UnknownHashError", "Internal Server Error",
                  None, None, a.steps)
    ELSE IF a.user = None
    THEN Response("login", req, 401, "AuthenticationError", "Invalid email or password",
                  None, None, a.steps)
    ELSE IF ~a.user.is_active
    THEN Response("login", req, 401, "InactiveUserError", "Inactive user account",
                  None, None, a.steps)
    ELSE Response("login", req, 200, "Token", "",
                  create_access_token(a.user.id, t),
                  create_refresh_token(a.user.id, t),
                  a.steps \o <<"create_access_token", "create_refresh_token">>)

\* mutant: a failed login locks the account
LoginLockingOut(email, password) ==
    /\ Running
    /\ resp' = login_user(users, email, password, now)
    /\ users' = [id \in UserIds |->
                    IF users[id] # None /\ users[id].email = email /\ resp'.status = 401
                    THEN [users[id] EXCEPT !.is_active = FALSE]
                    ELSE users[id]]
    /\ UNCHANGED <<now, settings, inflight>>

\* POST /login hands the request to login_user; the per-IP rate limit in
\* front of it belongs to the transport layer and is not part of the core
Login(email, password) ==
    /\ Running
    /\ resp' = login_user(users, email, password, now)
    /\ UNCHANGED <<users, now, settings, inflight>>

(***************************************************************************)
(* Tokens a client can present: any token the codec minted for some user   *)
(* id within MaxMintOffset seconds of StartTime, once that clock reading   *)
(* has passed (the tests mint with create_access_token(1) directly), a     *)
(* token signed with another key, one whose claims were altered after      *)
(* signing, and strings that are no token.                                 *)
(***************************************************************************)
Garbage(text) == [form |-> "garbage", text |-> text]

\* the clock readings at which the presented tokens were minted
MintTimes(t) == { m \in StartTime .. (StartTime + MaxMintOffset) : m <= t }

\* only a process whose settings loaded has a codec to mint with
MintedTokens(t) ==
    IF ~Running THEN {}
    ELSE { create_access_token(id, m) : id \in UserIds, m \in MintTimes(t) }
         \cup
         { create_refresh_token(id, m) : id \in UserIds, m \in MintTimes(t) }

ForgedTokens ==
    { Garbage("invalid"), Garbage(""),
      jwt_encode(create_refresh_token(1, StartTime).payload, "attacker-key"),
      [form    |-> "jwt",
       payload |-> [create_refresh_token(1, StartTime).payload EXCEPT !.sub = str(2)],
       sig     |-> create_refresh_token(1, StartTime).sig] }

\* claim sets that are not a TokenPayload, signed with the key of the process
Without(payload, field) == [f \in DOMAIN payload \ {field} |-> payload[f]]

IllFormedPayloads(t) ==
    LET p == [sub |-> str(1), exp |-> t + AccessTTL, iat |-> t, type |-> "access"] IN
    { Without(p, f) : f \in {"sub", "exp", "iat", "type"} }
    \cup { [p EXCEPT !.type = "admin"] }

IllFormedTokens(t) ==
    IF ~Running THEN {}
    ELSE { jwt_encode(p, SECRET_KEY) : p \in IllFormedPayloads(t) }

TokenInputs(t) == MintedTokens(t) \cup ForgedTokens

(***************************************************************************)
(* auth/router.py                                                          *)
(***************************************************************************)
\* mutant: the refresh token is rotated
refresh_rotating(db, refresh_token, t) ==
    LET req == [form |-> "refresh", refresh_token |-> refresh_token]
        d   == decode_token(refresh_token, "refresh", t)
    IN
    IF ~d.ok
    THEN Response("refresh", req, 401, "HTTPException", "Invalid or expired refresh token",
                  None, None, <<"decode_token">>)
    ELSE LET user == get_user_by_id(db, int(d.payload.sub)) IN
         IF user = None \/ ~user.is_active
         THEN Response("refresh", req, 401, "HTTPException",
                       "User no longer exists or is inactive",
                       None, None, <<"decode_token", "get_user_by_id">>)
         ELSE Response("refresh", req, 200, "Token", "",
                       create_access_token(user.id, t), create_refresh_token(user.id, t),
                       <<"decode_token", "get_user_by_id", "create_access_token">>)

\* mutant: the refresh token is honoured only for the lifetime of an access token
refresh_within_access_lifetime(db, refresh_token, t) ==
    LET req == [form |-> "refresh", refresh_token |-> refresh_token]
        d   == decode_token(refresh_token, "refresh", t)
    IN
    IF ~d.ok \/ t >= d.payload.iat + AccessTTL
    THEN Response("refresh", req, 401, "HTTPException", "Invalid or expired refresh token",
                  None, None, <<"decode_token">>)
    ELSE LET user == get_user_by_id(db, int(d.payload.sub)) IN
         IF user = None \/ ~user.is_active
         THEN Response("refresh", req, 401, "HTTPException",
                       "User no longer exists or is inactive",
                       None, None, <<"decode_token", "get_user_by_id">>)
         ELSE Response("refresh", req, 200, "Token", "",
                       create_access_token(user.id, t), refresh_token,
                       <<"decode_token", "get_user_by_id", "create_access_token">>)

\* mutant: the active flag is not looked at
refresh_skips_active_check(db, refresh_token, t) ==
    LET req == [form |-> "refresh", refresh_token |-> refresh_token]
        d   == decode_token(refresh_token, "refresh", t)
    IN
    IF ~d.ok
    THEN Response("refresh", req, 401, "HTTPException", "Invalid or expired refresh token",
                  None, None, <<"decode_token">>)
    ELSE LET user == get_user_by_id(db, int(d.payload.sub)) IN
         IF user = None
         THEN Response("refresh", req, 401, "HTTPException",
                       "User no longer exists or is inactive",
                       None, None, <<"decode_token", "get_user_by_id">>)
         ELSE Response("refresh", req, 200, "Token", "",
                       create_access_token(user.id, t), refresh_token,
                       <<"decode_token", "get_user_by_id", "create_access_token">>)

\* mutant: the new access token does not outlive the refresh token
refresh_capped_by_refresh_expiry(db, refresh_token, t) ==
    LET req == [form |-> "refresh", refresh_token |-> refresh_token]
        d   == decode_token(refresh_token, "refresh", t)
    IN
    IF ~d.ok
    THEN Response("refresh", req, 401, "HTTPException", "Invalid or expired refresh token",
                  None, None, <<"decode_token">>)
    ELSE LET user == get_user_by_id(db, int(d.payload.sub)) IN
         IF user = None \/ ~user.is_active
         THEN Response("refresh", req, 401, "HTTPException",
                       "User no longer exists or is inactive",
                       None, None, <<"decode_token", "get_user_by_id">>)
         ELSE Response("refresh", req, 200, "Token", "",
                       jwt_encode([create_access_token(user.id, t).payload EXCEPT
                                      !.exp = IF @ > d.payload.exp THEN d.payload.exp ELSE @],
                                  SECRET_KEY), refresh_token,
                       <<"decode_token", "get_user_by_id", "create_access_token">>)

\* mutant: a subject without a row is answered with 404
refresh_reveals_missing_user(db, refresh_token, t) ==
    LET req == [form |-> "refresh", refresh_token |-> refresh_token]
        d   == decode_token(refresh_token, "refresh", t)
    IN
    IF ~d.ok
    THEN Response("refresh", req, 401, "HTTPException", "Invalid or expired refresh token",
                  None, None, <<"decode_token">>)
    ELSE LET user == get_user_by_id(db, int(d.payload.sub)) IN
         IF user = None
         THEN Response("refresh", req, 404, "HTTPException", "User not found",
                       None, None, <<"decode_token", "get_user_by_id">>)
         ELSE IF user = None \/ ~user.is_active
         THEN Response("refresh", req, 401, "HTTPException",
                       "User no longer exists or is inactive",
                       None, None, <<"decode_token", "get_user_by_id">>)
         ELSE Response("refresh", req, 200, "Token", "",
                       create_access_token(user.id, t), refresh_token,
                       <<"decode_token", "get_user_by_id", "create_access_token">>)

refresh(db, refresh_token, t) ==
    LET req == [form |-> "refresh", refresh_token |-> refresh_token]
        d   == decode_token(refresh_token, "refresh", t)
    IN
    IF ~d.ok
    THEN Response("refresh", req, 401, "HTTPException", "Invalid or expired refresh token",
                  None, None, <<"decode_token">>)
    ELSE LET user == get_user_by_id(db, int(d.payload.sub)) IN
         IF user = None \/ ~user.is_active
         THEN Response("refresh", req, 401, "HTTPException",
                       "User no longer exists or is inactive",
                       None, None, <<"decode_token", "get_user_by_id">>)
         ELSE Response("refresh", req, 200, "Token", "",
                       create_access_token(user.id, t), refresh_token,
                       <<"decode_token", "get_user_by_id", "create_access_token">>)

Refresh(token) ==
    /\ Running
    /\ resp' = refresh(users, token, now)
    /\ UNCHANGED <<users, now, settings, inflight>>

\* mutant: the active flag is not checked
get_current_user_for_logout_skips_active_check(db, token, t) ==
    LET d == decode_token(token, "access", t) IN
    IF ~d.ok
    THEN [status |-> 401, kind |-> "HTTPException", detail |-> d.error, user |-> None,
          steps |-> <<"decode_token">>]
    ELSE LET user == get_user_by_id(db, int(d.payload.sub)) IN
         IF user = None
         THEN [status |-> 404, kind |-> "HTTPException", detail |-> "User not found",
               user |-> None, steps |-> <<"decode_token", "get_user_by_id">>]
         ELSE [status |-> 200, kind |-> "User", detail |-> "", user |-> user,
               steps |-> <<"decode_token", "get_user_by_id">>]

\* the dependency of logout: [status, kind, detail, user, steps]
get_current_user_for_logout(db, token, t) ==
    LET d == decode_token(token, "access", t) IN
    IF ~d.ok
    THEN [status |-> 401, kind |-> "HTTPException", detail |-> d.error, user |-> None,
          steps |-> <<"decode_token">>]
    ELSE LET user == get_user_by_id(db, int(d.payload.sub)) IN
         IF user = None
         THEN [status |-> 404, kind |-> "HTTPException", detail |-> "User not found",
               user |-> None, steps |-> <<"decode_token", "get_user_by_id">>]
         ELSE IF ~user.is_active
         THEN [status |-> 403, kind |-> "HTTPException", detail |-> "Inactive user account",
               user |-> None, steps |-> <<"decode_token", "get_user_by_id">>]
         ELSE [status |-> 200, kind |-> "User", detail |-> "", user |-> user,
               steps |-> <<"decode_token", "get_user_by_id">>]

logout(db, token, t) ==
    LET req == [form |-> "logout", token |-> token]
        u   == get_current_user_for_logout(db, token, t)
    IN
    IF u.user = None
    THEN Response("logout", req, u.status, u.kind, u.detail, None, None, u.steps)
    ELSE Response("logout", req, 204, "Response", "", None, None, u.steps)

\* mutant: logout revokes by deactivating the account of the token
LogoutRevoking(token) ==
    /\ Running
    /\ resp' = logout(users, token, now)
    /\ users' = [id \in UserIds |->
                    IF users[id] # None /\ resp'.status = 204
                       /\ str(id) = token.payload.sub
                    THEN [users[id] EXCEPT !.is_active = FALSE]
                    ELSE users[id]]
    /\ UNCHANGED <<now, settings, inflight>>

Logout(token) ==
    /\ Running
    /\ resp' = logout(users, token, now)
    /\ UNCHANGED <<users, now, settings, inflight>>

(***************************************************************************)
(* core/dependencies.py: the access-token check of protected routes.  A    *)
(* dependency yields [status, kind, detail, user, steps]; status 200 means *)
(* it returned the user to the route.                                      *)
(***************************************************************************)
\* mutant: a subject without a row is reported like a rejected token
get_current_user_hides_missing_row(db, token, t) ==
    LET d == decode_token(token, "access", t) IN
    IF ~d.ok \/ get_user_by_id(db, int(d.payload.sub)) = None
    THEN [status |-> 401, kind |-> "HTTPException", detail |-> "Invalid or expired token",
          user |-> None, steps |-> <<"decode_token">>]
    ELSE [status |-> 200, kind |-> "User", detail |-> "",
          user |-> get_user_by_id(db, int(d.payload.sub)),
          steps |-> <<"decode_token", "get_user_by_id">>]

get_current_user(db, token, t) ==
    LET d == decode_token(token, "access", t) IN
    IF ~d.ok
    THEN [status |-> 401, kind |-> "HTTPException", detail |-> d.error, user |-> None,
          steps |-> <<"decode_token">>]
    ELSE LET user_id == int(d.payload.sub)
             user    == get_user_by_id(db, user_id)
         IN
         IF user = None
         THEN [status |-> 404, kind |-> "HTTPException", detail |-> "User not found",
               user |-> None, steps |-> <<"decode_token", "get_user_by_id">>]
         ELSE [status |-> 200, kind |-> "User", detail |-> "", user |-> user,
               steps |-> <<"decode_token", "get_user_by_id">>]

get_current_active_user(db, token, t) ==
    LET u == get_current_user(db, token, t) IN
    IF u.user = None THEN u
    ELSE IF ~u.user.is_active
    THEN [status |-> 403, kind |-> "HTTPException", detail |-> "Inactive user account",
          user |-> None, steps |-> u.steps]
    ELSE u

\* what a route that depends on the check answers: the error of the
\* dependency, or 200 for the user it was given
DependencyResponse(op, token, u) ==
    [user |-> u.user] @@
    Response(op, [form |-> op, token |-> token], u.status, u.kind, u.detail,
             None, None, u.steps)

CurrentActiveUser(token) ==
    /\ Running
    /\ resp' = DependencyResponse("get_current_active_user", token,
                                  get_current_active_user(users, token, now))
    /\ UNCHANGED <<users, now, settings, inflight>>

\* one request at a time: every handler runs from its first line to its
\* response before the next step, and no coroutine is left suspended
Next ==
    \/ LoadSettings
    \/ \E id \in UserIds, p \in Passwords, s \in Salts : CreateUser(id, p, s)
    \/ \E id \in UserIds, b \in BOOLEAN : SetActive(id, b)
    \/ \E id \in UserIds : SetHash(id, MalformedHash)
    \/ \E id \in UserIds : DeleteUser(id)
    \/ \E d \in ClockSteps : Advance(d)
    \/ \E e \in Emails, p \in Passwords : Login(e, p)
    \/ \E tok \in TokenInputs(now) : Refresh(tok)
    \/ \E tok \in TokenInputs(now) : Logout(tok)
    \/ \E tok \in TokenInputs(now) : CurrentActiveUser(tok)

Spec == Init /\ [][Next]_vars

(***************************************************************************)
(* Vocabulary of the properties                                            *)
(***************************************************************************)
\* a request was served in this step: only the handlers write resp, and
\* they leave users and now as the request found them
Served(op) == resp' # resp /\ resp'.op = op

Outward(r) == <<r.status, r.kind, r.detail>>

NoTokens(r) == r.access_token = None /\ r.refresh_token = None

Count(x, seq) == Cardinality({ i \in DOMAIN seq : seq[i] = x })

UnknownEmail(db, email) == \A id \in UserIds : db[id] = None \/ db[id].email # email

\* the row of email holds a hash made from password q
StoredPasswordIs(db, email, q) ==
    \E id \in UserIds, s \in Salts :
        /\ db[id] # None
        /\ db[id].email = email
        /\ db[id].hashed_password = hash_password(q, s)

WrongPassword(db, email, p) ==
    \E q \in Passwords : q # p /\ StoredPasswordIs(db, email, q)

ActiveFlag(db, email, b) ==
    \E id \in UserIds : db[id] # None /\ db[id].email = email /\ db[id].is_active = b

GenericCredentialFailure == <<401, "AuthenticationError", "Invalid email or password">>

GenericRefreshFailure == <<401, "HTTPException", "Invalid or expired refresh token">>

IsMinted(tok, kind) ==
    /\ tok.form = "jwt"
    /\ tok.sig = Sign(SECRET_KEY, tok.payload)
    /\ TokenPayloadValid(tok.payload)
    /\ tok.payload.type = kind

(***************************************************************************)
(* C1: a login with an existing email and a wrong password and a login     *)
(* with an email that has no row both fail with status 401, kind           *)
(* AuthenticationError and the message "Invalid email or password", so the *)
(* two responses are equal in status, kind and message.                    *)
(***************************************************************************)
C1_GenericLoginFailure ==
    [][ (/\ Served("login")
         /\ \/ UnknownEmail(users, resp'.req.email)
            \/ WrongPassword(users, resp'.req.email, resp'.req.password))
        => /\ Outward(resp') = GenericCredentialFailure
           /\ NoTokens(resp') ]_vars

\* a wrong-password failure is in resp while another email has no row, and a
\* login with that email now would get the very same response
C1_Witness ==
    /\ resp.op = "login"
    /\ WrongPassword(users, resp.req.email, resp.req.password)
    /\ Outward(resp) = GenericCredentialFailure
    /\ \E e \in Emails :
          /\ UnknownEmail(users, e)
          /\ Outward(login_user(users, e, resp.req.password, now)) = Outward(resp)

(***************************************************************************)
(* C2: every login attempt runs the password verification exactly once,    *)
(* whether or not a row exists for the email.                              *)
(***************************************************************************)
C2_VerifyOncePerLogin ==
    resp.op = "login" => Count("verify_password", resp.steps) = 1

(***************************************************************************)
(* C3: a token minted at t with kind k decodes with expected kind k at     *)
(* every clock reading in [t, t + TTL(k)) and is rejected at every clock   *)
(* reading >= t + TTL(k), the reading t + TTL(k) itself included.          *)
(***************************************************************************)
C3_ValidExactlyUntilExpiry ==
    \A tok \in MintedTokens(now) :
        decode_token(tok, tok.payload.type, now).ok
            <=> now < tok.payload.iat + TTL(tok.payload.type)

(***************************************************************************)
(* C4: a refresh that fails because the token's user is gone or inactive   *)
(* gets the same status, kind and message as a refresh that fails on a     *)
(* malformed, expired or wrong-kind token: every failed refresh is the     *)
(* generic invalid-refresh-token response.                                 *)
(***************************************************************************)
C4_RefreshFailureIsGeneric ==
    (resp.op = "refresh" /\ resp.status # 200) => Outward(resp) = GenericRefreshFailure

(***************************************************************************)
(* C5: refresh with an access token, with an expired refresh token (the    *)
(* clock has reached its exp) or with a string that is no validly signed   *)
(* token fails with 401 and the message "Invalid or expired refresh        *)
(* token", and returns no token.                                           *)
(***************************************************************************)
C5_BadRefreshTokenIsGeneric ==
    [][ (/\ Served("refresh")
         /\ LET tok == resp'.req.refresh_token IN
            \/ IsMinted(tok, "access")
            \/ IsMinted(tok, "refresh") /\ now >= tok.payload.exp
            \/ tok.form # "jwt"
            \/ tok.form = "jwt" /\ tok.sig # Sign(SECRET_KEY, tok.payload))
        => /\ Outward(resp') = GenericRefreshFailure
           /\ NoTokens(resp') ]_vars

(***************************************************************************)
(* C6: login for an existing inactive user with the correct password fails *)
(* with InactiveUserError and the message "Inactive user account", which   *)
(* differs in kind and message from the generic credential failure, and    *)
(* returns no token.                                                       *)
(***************************************************************************)
C6_InactiveLoginIsDistinct ==
    [][ (/\ Served("login")
         /\ StoredPasswordIs(users, resp'.req.email, resp'.req.password)
         /\ ActiveFlag(users, resp'.req.email, FALSE))
        => /\ Outward(resp') = <<401, "InactiveUserError", "Inactive user account">>
           /\ resp'.kind # GenericCredentialFailure[2]
           /\ resp'.detail # GenericCredentialFailure[3]
           /\ NoTokens(resp') ]_vars

C6_Witness ==
    /\ resp.op = "login"
    /\ StoredPasswordIs(users, resp.req.email, resp.req.password)
    /\ ActiveFlag(users, resp.req.email, FALSE)
    /\ resp.kind = "InactiveUserError"

(***************************************************************************)
(* C7: login with the email of an existing active user and the correct     *)
(* password returns a token pair: the access token decodes as kind access, *)
(* the refresh token decodes as kind refresh, and the subject of both is   *)
(* the id of that user.                                                    *)
(***************************************************************************)
C7_LoginReturnsTokenPair ==
    [][ (/\ Served("login")
         /\ StoredPasswordIs(users, resp'.req.email, resp'.req.password)
         /\ ActiveFlag(users, resp'.req.email, TRUE))
        => LET a == decode_token(resp'.access_token, "access", now)
               r == decode_token(resp'.refresh_token, "refresh", now)
               u == get_user_by_email(users, resp'.req.email)
           IN /\ resp'.status = 200
              /\ a.ok /\ a.payload.type = "access"  /\ int(a.payload.sub) = u.id
              /\ r.ok /\ r.payload.type = "refresh" /\ int(r.payload.sub) = u.id ]_vars

C7_Witness ==
    /\ resp.op = "login"
    /\ resp.status = 200
    /\ StoredPasswordIs(users, resp.req.email, resp.req.password)
    /\ ActiveFlag(users, resp.req.email, TRUE)
    /\ resp.access_token.payload.sub = str(2)

(***************************************************************************)
(* C8: a successful refresh returns an access token minted at the time of  *)
(* the request whose subject is the user id of the refresh token, together *)
(* with the refresh token exactly as it was presented.                     *)
(***************************************************************************)
C8_RefreshKeepsRefreshToken ==
    [][ (Served("refresh") /\ resp'.status = 200)
        => LET a == decode_token(resp'.access_token, "access", now) IN
           /\ resp'.refresh_token = resp'.req.refresh_token
           /\ a.ok
           /\ a.payload.iat = now
           /\ a.payload.sub = resp'.req.refresh_token.payload.sub ]_vars

\* a refresh succeeded with a token minted earlier than the request
C8_Witness ==
    /\ resp.op = "refresh"
    /\ resp.status = 200
    /\ resp.refresh_token = resp.req.refresh_token
    /\ resp.access_token.payload.iat > resp.refresh_token.payload.iat

(***************************************************************************)
(* C9: a token minted with kind access is rejected when decoded with       *)
(* expected kind refresh and a token minted with kind refresh is rejected  *)
(* when decoded with expected kind access, at every clock reading, before  *)
(* and after its expiry.                                                   *)
(***************************************************************************)
OtherKind(kind) == IF kind = "access" THEN "refresh" ELSE "access"

C9_WrongKindRejected ==
    \A tok \in MintedTokens(now) :
        ~decode_token(tok, OtherKind(tok.payload.type), now).ok

\* an unexpired refresh token was presented as an access token and refused
\* for its kind, at a clock reading where a minted access token has expired
\* and is refused as a refresh token too
C9_Witness ==
    /\ resp.op = "logout"
    /\ IsMinted(resp.req.token, "refresh")
    /\ resp.req.token.payload.exp > now
    /\ Outward(resp) = <<401, "HTTPException", "Invalid token type. Expected access, got refresh">>
    /\ \E tok \in MintedTokens(now) :
          /\ tok.payload.type = "access"
          /\ tok.payload.exp < now
          /\ ~decode_token(tok, "refresh", now).ok

HasMalformedHash(db, email) ==
    \E id \in UserIds :
        /\ db[id] # None
        /\ db[id].email = email
        /\ db[id].hashed_password.form # "argon2"

C11_MalformedHashIsGeneric ==
    [][ (Served("login") /\ HasMalformedHash(users, resp'.req.email))
        => Outward(resp') = GenericCredentialFailure ]_vars

(***************************************************************************)
(* C12: the access-token check (the dependency of protected routes and the *)
(* one of logout) answers 401 exactly when decode_token rejects the token, *)
(* 404 "User not found" exactly when the token decodes and its subject has *)
(* no row, 403 "Inactive user account" exactly when the row is inactive,   *)
(* and otherwise succeeds for the user whose id is the subject.            *)
(***************************************************************************)
AccessCheckOps == {"logout", "get_current_active_user"}

SuccessStatus(op) == IF op = "logout" THEN 204 ELSE 200

C12_AccessCheckOutcomes ==
    [][ \A op \in AccessCheckOps :
          Served(op) =>
            LET d   == decode_token(resp'.req.token, "access", now)
                row == IF d.ok THEN get_user_by_id(users, int(d.payload.sub)) ELSE None
            IN
            /\ resp'.status \in {401, 404, 403, SuccessStatus(op)}
            /\ (resp'.status = 401) <=> ~d.ok
            /\ (resp'.status = 404) <=> (d.ok /\ row = None)
            /\ (resp'.status = 403) <=> (d.ok /\ row # None /\ ~row.is_active)
            /\ (resp'.status = 404) => resp'.detail = "User not found"
            /\ (resp'.status = 403) => resp'.detail = "Inactive user account"
            /\ (op = "get_current_active_user" /\ resp'.status = 200)
                  => resp'.user.id = int(d.payload.sub) ]_vars

\* the claim as stated: the check either succeeds or answers 401
C12_AccessCheckHasTwoOutcomes ==
    resp.op \in AccessCheckOps => resp.status \in {SuccessStatus(resp.op), 401}

\* a protected route answered 404 for a token whose subject has no row
C12_Witness ==
    /\ resp.op = "get_current_active_user"
    /\ resp.status = 404
    /\ IsMinted(resp.req.token, "access")
    /\ get_user_by_id(users, int(resp.req.token.payload.sub)) = None

(***************************************************************************)
(* C13: a token that decode_token rejects gets one and the same status,    *)
(* kind and message from refresh and from the access-token check, whatever *)
(* the reason of the rejection: the response to the rejected token equals  *)
(* the response any other rejected token would get.                        *)
(***************************************************************************)
TokenOps == {"refresh", "logout", "get_current_active_user"}

ExpectedKind(op) == IF op = "refresh" THEN "refresh" ELSE "access"

PresentedToken(r) == IF r.op = "refresh" THEN r.req.refresh_token ELSE r.req.token

AnswerTo(op, db, token, t) ==
    CASE op = "refresh" -> refresh(db, token, t)
      [] op = "logout"  -> logout(db, token, t)
      [] OTHER          -> DependencyResponse("get_current_active_user", token,
                                              get_current_active_user(db, token, t))

C13_TokenRejectionIsOpaque ==
    [][ \A op \in TokenOps :
          (Served(op) /\ ~decode_token(PresentedToken(resp'), ExpectedKind(op), now).ok)
          => \A other \in TokenInputs(now) :
                ~decode_token(other, ExpectedKind(op), now).ok
                => Outward(AnswerTo(op, users, other, now)) = Outward(resp') ]_vars

(***************************************************************************)
(* C14: every login failure is answered with status 401.  An unknown email *)
(* or a wrong password gets kind AuthenticationError and the message       *)
(* "Invalid email or password"; the correct password of an inactive        *)
(* account gets kind InactiveUserError and the message "Inactive user      *)
(* account", and only that case gets them.                                 *)
(***************************************************************************)
C14_LoginFailuresShareStatus ==
    [][ (/\ Served("login")
         /\ \/ UnknownEmail(users, resp'.req.email)
            \/ WrongPassword(users, resp'.req.email, resp'.req.password)
            \/ /\ StoredPasswordIs(users, resp'.req.email, resp'.req.password)
               /\ ActiveFlag(users, resp'.req.email, FALSE))
        => /\ resp'.status = 401
           /\ (resp'.kind = "InactiveUserError" /\ resp'.detail = "Inactive user account")
                 <=> StoredPasswordIs(users, resp'.req.email, resp'.req.password)
           /\ (Outward(resp') = GenericCredentialFailure)
                 <=> ~StoredPasswordIs(users, resp'.req.email, resp'.req.password) ]_vars

\* the claim as stated: the inactive account is answered with 403
C14_InactiveLoginIsForbidden ==
    resp.op = "login" =>
        /\ (resp.kind = "AuthenticationError" => resp.status = 401)
        /\ (resp.kind = "InactiveUserError" => resp.status = 403)

\* an inactive-account failure is in resp with the status a wrong password
\* for the same account gets
C14_Witness ==
    /\ resp.op = "login"
    /\ resp.kind = "InactiveUserError"
    /\ ActiveFlag(users, resp.req.email, FALSE)
    /\ \E p \in Passwords :
          /\ WrongPassword(users, resp.req.email, p)
          /\ login_user(users, resp.req.email, p, now).status = resp.status

(***************************************************************************)
(* C15: login verifies the password before it looks at the active flag: a  *)
(* wrong password for an inactive account gets the generic credential      *)
(* failure, and the inactive-account failure is given only to a login that *)
(* presented the stored password.                                          *)
(***************************************************************************)
C15_PasswordBeforeActiveFlag ==
    [][ Served("login") =>
          /\ (/\ WrongPassword(users, resp'.req.email, resp'.req.password)
              /\ ActiveFlag(users, resp'.req.email, FALSE))
             => Outward(resp') = GenericCredentialFailure
          /\ resp'.kind = "InactiveUserError"
             => StoredPasswordIs(users, resp'.req.email, resp'.req.password) ]_vars

C15_Witness ==
    /\ resp.op = "login"
    /\ WrongPassword(users, resp.req.email, resp.req.password)
    /\ ActiveFlag(users, resp.req.email, FALSE)
    /\ Outward(resp) = GenericCredentialFailure

(***************************************************************************)
(* C16: loading the settings fails exactly when the configured secret is   *)
(* shorter than 32 characters; a process that runs holds a secret of at    *)
(* least 32 characters, only a running process answers requests, and every *)
(* token in a response is signed with such a secret.                       *)
(***************************************************************************)
RespTokens(r) == {r.access_token, r.refresh_token} \ {None}

C16_NoShortSecretInUse ==
    /\ settings.phase # "unloaded"
          => (settings.phase = "failed"
                 <=> Len(os_getenv(settings.env, DefaultSecretKey)) < 32)
    /\ Running => Len(SECRET_KEY) >= 32
    /\ resp.op # "none" => Running
    /\ \A tok \in RespTokens(resp) : Len(tok.sig[1]) >= 32

\* the load failed on a secret of 31 characters and nothing was served
C16_Witness ==
    /\ settings.phase = "failed"
    /\ settings.env.form = "set"
    /\ Len(settings.env.text) = 31
    /\ resp.op = "none"
    /\ \A id \in UserIds : users[id] = None

(***************************************************************************)
(* C17: every minted token expires strictly after it was issued: each      *)
(* token the codec mints, and each token a response carries, has           *)
(* exp > iat.                                                              *)
(***************************************************************************)
C17_ExpiryAfterIssue ==
    \A tok \in MintedTokens(now) \cup RespTokens(resp) :
        tok.payload.exp > tok.payload.iat

C17_Witness ==
    /\ resp.op = "login"
    /\ resp.status = 200
    /\ resp.access_token.payload.iat = now
    /\ resp.access_token.payload.exp = now + AccessTTL
    /\ resp.refresh_token.payload.exp = now + RefreshTTL

(***************************************************************************)
(* C18: verify_password(p, hash_password(q)) never raises and is true      *)
(* exactly when p = q, for passwords that differ only in case and for the  *)
(* empty password too; a stored hash made from q is matched by q alone.    *)
(***************************************************************************)
PasswordSamples == Passwords \cup {"", "p@ss1234"}

Mint(user_id, kind, t) ==
    IF kind = "access" THEN create_access_token(user_id, t)
    ELSE create_refresh_token(user_id, t)

C19_TokenDeterminedByInputs ==
    /\ LET inputs == UserIds \X {"access", "refresh"} \X (MintTimes(now) \cup {now})
       IN  \* as many tokens as inputs: no two inputs give the same token
           Cardinality({ Mint(x[1], x[2], x[3]) : x \in inputs }) = Cardinality(inputs)
    /\ (resp.op = "login" /\ resp.status = 200)
          => resp.access_token # resp.refresh_token

\* a login succeeded after the clock moved, so that two mint times exist
C19_Witness ==
    /\ resp.op = "login"
    /\ resp.status = 200
    /\ now > StartTime
    /\ resp.access_token = Mint(int(resp.access_token.payload.sub), "access", now)
    /\ resp.access_token # Mint(int(resp.access_token.payload.sub), "access", StartTime)

(***************************************************************************)
(* C20: logout with an access token that decodes (validly signed, kind     *)
(* access, not expired) answers 403 "Inactive user account" when the row   *)
(* of its subject is inactive and 204 when it is active; the active-user   *)
(* check of protected routes answers 403 and 200 likewise.                 *)
(***************************************************************************)
C20_InactiveUserBlocked ==
    [][ \A op \in AccessCheckOps :
          (/\ Served(op)
           /\ IsMinted(resp'.req.token, "access")
           /\ now < resp'.req.token.payload.exp
           /\ get_user_by_id(users, int(resp'.req.token.payload.sub)) # None)
          => IF get_user_by_id(users, int(resp'.req.token.payload.sub)).is_active
             THEN resp'.status = SuccessStatus(op)
             ELSE /\ resp'.status = 403
                  /\ resp'.detail = "Inactive user account" ]_vars

\* a logout was refused with 403 for a token that logged out before the
\* account was deactivated would have been accepted
C20_Witness ==
    /\ resp.op = "logout"
    /\ resp.status = 403
    /\ IsMinted(resp.req.token, "access")
    /\ now < resp.req.token.payload.exp
    /\ LET id == int(resp.req.token.payload.sub) IN
       /\ users[id] # None
       /\ ~users[id].is_active
       /\ logout([users EXCEPT ![id].is_active = TRUE], resp.req.token, now).status = 204

(***************************************************************************)
(* The codec on its own: create_access_token, create_refresh_token and     *)
(* decode_token applied to inputs from bounded sets, as the unit tests of  *)
(* core/security.py do.  resp holds the last call and what it returned.    *)
(***************************************************************************)
IdSamples == UserIds \cup {42, 123, 456}

Kinds == {"access", "refresh"}

NoMint == [form |-> "none"]

InitCodec ==
    /\ users = [id \in UserIds |-> None]
    /\ now = StartTime
    /\ settings = Settings(EnvUnset)
    /\ inflight = [s \in Slots |-> Idle]
    /\ resp = [op |-> "none"]

\* token = create_access_token(user_id) or create_refresh_token(user_id)
MintToken(user_id, kind) ==
    /\ Running
    /\ resp' = [op      |-> "mint",
                user_id |-> user_id,
                kind    |-> kind,
                t       |-> now,
                token   |-> Mint(user_id, kind, now)]
    /\ UNCHANGED <<users, now, settings, inflight>>

\* decode_token(token, expected_type) for the token just minted
DecodeMinted(expected_type) ==
    /\ Running
    /\ resp.op = "mint"
    /\ resp' = [op            |-> "decode",
                minted        |-> [user_id |-> resp.user_id, kind |-> resp.kind,
                                   t |-> resp.t],
                token         |-> resp.token,
                expected_type |-> expected_type,
                t             |-> now,
                result        |-> decode_token(resp.token, expected_type, now)]
    /\ UNCHANGED <<users, now, settings, inflight>>

\* decode_token(token, expected_type) for a token the codec did not mint
DecodeOther(token, expected_type) ==
    /\ Running
    /\ resp' = [op            |-> "decode",
                minted        |-> NoMint,
                token         |-> token,
                expected_type |-> expected_type,
                t             |-> now,
                result        |-> decode_token(token, expected_type, now)]
    /\ UNCHANGED <<users, now, settings, inflight>>

NextCodec ==
    \/ \E id \in IdSamples, k \in Kinds : MintToken(id, k)
    \/ \E k \in Kinds : DecodeMinted(k)
    \/ \E tok \in IllFormedTokens(now) \cup ForgedTokens, k \in Kinds : DecodeOther(tok, k)
    \/ \E d \in ClockSteps : Advance(d)

SpecCodec == InitCodec /\ [][NextCodec]_vars

(***************************************************************************)
(* C21: for every user id s and kind k, decoding a token minted at t with  *)
(* expected kind k at t succeeds and returns sub = str(s), which int turns *)
(* back into s, type = k, iat = t and exp = iat + TTL(k).                  *)
(***************************************************************************)
C21_MintDecodeRoundTrip ==
    (/\ resp.op = "decode"
     /\ resp.minted # NoMint
     /\ resp.expected_type = resp.minted.kind
     /\ resp.t = resp.minted.t)
    => /\ resp.result.ok
       /\ resp.result.payload.sub = str(resp.minted.user_id)
       /\ int(resp.result.payload.sub) = resp.minted.user_id
       /\ resp.result.payload.type = resp.minted.kind
       /\ resp.result.payload.iat = resp.minted.t
       /\ resp.result.payload.exp = resp.result.payload.iat + TTL(resp.minted.kind)

\* a refresh token for user 456 was minted after the clock moved and decoded
\* in the same second
C21_Witness ==
    /\ resp.op = "decode"
    /\ resp.minted # NoMint
    /\ resp.minted.user_id = 456
    /\ resp.minted.kind = "refresh"
    /\ resp.expected_type = "refresh"
    /\ resp.t = resp.minted.t
    /\ resp.t > StartTime
    /\ resp.result.ok
    /\ resp.result.payload.sub = <<"4", "5", "6">>

(***************************************************************************)
(* C22: a correctly signed, unexpired token whose claims lack sub, exp,    *)
(* iat or type, or whose type is neither access nor refresh, is rejected   *)
(* by decode_token for either expected kind; whatever decode_token does    *)
(* return has all four claims and a type of access or refresh.             *)
(***************************************************************************)
C22_OnlyWellFormedClaims ==
    resp.op = "decode" =>
        /\ resp.result.ok
           => /\ {"sub", "exp", "iat", "type"} \subseteq DOMAIN resp.result.payload
              /\ resp.result.payload.type \in Kinds
        /\ (/\ resp.token.form = "jwt"
            /\ resp.token.sig = Sign(SECRET_KEY, resp.token.payload)
            /\ ("exp" \in DOMAIN resp.token.payload => resp.t < resp.token.payload.exp)
            /\ \/ ~({"sub", "exp", "iat", "type"} \subseteq DOMAIN resp.token.payload)
               \/ resp.token.payload.type \notin Kinds)
           => /\ ~resp.result.ok
              /\ resp.result.error = "Invalid token payload"

\* a token without expiry, signed with the key of the process, was refused
C22_Witness ==
    /\ resp.op = "decode"
    /\ resp.token \in IllFormedTokens(resp.t)
    /\ "exp" \notin DOMAIN resp.token.payload
    /\ resp.token.sig = Sign(SECRET_KEY, resp.token.payload)
    /\ jwt_decode(resp.token, SECRET_KEY, resp.t).ok
    /\ ~resp.result.ok
    /\ resp.result.error = "Invalid token payload"

(***************************************************************************)
(* C23: the refresh token of a login expires strictly later than its       *)
(* access token (AccessTTL < RefreshTTL), and from the second after the    *)
(* access token's exp up to the second before the refresh token's exp the  *)
(* access token is rejected while the refresh token is accepted.           *)
(***************************************************************************)
C23_RefreshOutlivesAccess ==
    /\ AccessTTL < RefreshTTL
    /\ (resp.op = "login" /\ resp.status = 200) =>
          LET a == resp.access_token
              r == resp.refresh_token
          IN
          /\ a.payload.exp < r.payload.exp
          /\ \A t \in {a.payload.exp + 1, r.payload.exp - 1} :
                /\ ~decode_token(a, "access", t).ok
                /\ decode_token(r, "refresh", t).ok
    /\ Running =>
          \A id \in UserIds, m \in MintTimes(now) :
              (now > m + AccessTTL /\ now < m + RefreshTTL)
              => /\ ~decode_token(create_access_token(id, m), "access", now).ok
                 /\ decode_token(create_refresh_token(id, m), "refresh", now).ok

\* a refresh succeeded with a token whose companion access token of the same
\* login is refused now
C23_Witness ==
    /\ resp.op = "refresh"
    /\ resp.status = 200
    /\ LET r == resp.req.refresh_token IN
       /\ now > r.payload.iat + AccessTTL
       /\ logout(users, create_access_token(int(r.payload.sub), r.payload.iat), now).status = 401

(***************************************************************************)
(* C24: a refresh with a minted refresh token that has not expired, whose  *)
(* user exists and is active, succeeds in every reachable state, that is   *)
(* after any earlier logins, refreshes and logouts, and hands the same     *)
(* refresh token back.                                                     *)
(***************************************************************************)
SubjectRow(db, tok) == get_user_by_id(db, int(tok.payload.sub))

C24_RefreshTokenReusable ==
    [][ (/\ Served("refresh")
         /\ IsMinted(resp'.req.refresh_token, "refresh")
         /\ now < resp'.req.refresh_token.payload.exp
         /\ SubjectRow(users, resp'.req.refresh_token) # None
         /\ SubjectRow(users, resp'.req.refresh_token).is_active)
        => /\ resp'.status = 200
           /\ resp'.refresh_token = resp'.req.refresh_token ]_vars

\* the token of an earlier successful refresh would be honoured again now
C24_Witness ==
    /\ resp.op = "refresh"
    /\ resp.status = 200
    /\ resp.access_token.payload.iat < now
    /\ now < resp.refresh_token.payload.exp
    /\ LET again == refresh(users, resp.refresh_token, now) IN
       /\ again.status = 200
       /\ again.refresh_token = resp.refresh_token
       /\ again.access_token # resp.access_token

(***************************************************************************)
(* C25: a refresh with a minted, unexpired refresh token succeeds exactly  *)
(* when the row of its subject exists and is active at the time of the     *)
(* request: after a deactivation or removal it fails and returns no token, *)
(* after a reactivation it succeeds again.                                 *)
(***************************************************************************)
C25_DeactivationBlocksRefresh ==
    [][ (/\ Served("refresh")
         /\ IsMinted(resp'.req.refresh_token, "refresh")
         /\ now < resp'.req.refresh_token.payload.exp)
        => LET row == SubjectRow(users, resp'.req.refresh_token) IN
           /\ (resp'.status = 200) <=> (row # None /\ row.is_active)
           /\ (resp'.status # 200) => NoTokens(resp') ]_vars

\* a refresh was refused for an inactive user whose reactivation would let
\* the same token through
C25_Witness ==
    /\ resp.op = "refresh"
    /\ resp.status = 401
    /\ NoTokens(resp)
    /\ IsMinted(resp.req.refresh_token, "refresh")
    /\ now < resp.req.refresh_token.payload.exp
    /\ LET id == int(resp.req.refresh_token.payload.sub) IN
       /\ users[id] # None
       /\ ~users[id].is_active
       /\ refresh([users EXCEPT ![id].is_active = TRUE],
                  resp.req.refresh_token, now).status = 200

(***************************************************************************)
(* C26: login, refresh, the access-token check and logout leave the user   *)
(* store as they found it, whether they succeed or fail.                   *)
(***************************************************************************)
HandlerOps == {"login", "refresh", "logout", "get_current_active_user"}

C26_HandlersLeaveStoreUnchanged ==
    [][ (\E op \in HandlerOps : Served(op)) => users' = users ]_vars

\* a failed login for an existing active user left the row active
C26_Witness ==
    /\ resp.op = "login"
    /\ resp.status = 401
    /\ WrongPassword(users, resp.req.email, resp.req.password)
    /\ ActiveFlag(users, resp.req.email, TRUE)

(***************************************************************************)
(* Concurrent requests.  The handlers are coroutines on one event loop: a  *)
(* request runs without interruption up to its await (the store lookup),   *)
(* is suspended while the query runs, and runs without interruption from   *)
(* the returned row to its response.  Other requests, the store's owner    *)
(* and the clock act in between.  login reads the clock only after its     *)
(* lookup (to mint); refresh and the access-token check decode the token,  *)
(* and so read the clock, before it.                                       *)
(***************************************************************************)
ConcurrentRequests ==
    { [form |-> "login", email |-> "a@x.com", password |-> "P@ss1234"],
      [form |-> "refresh", refresh_token |-> create_refresh_token(1, StartTime)],
      [form |-> "refresh", refresh_token |-> create_access_token(1, StartTime)],
      [form |-> "get_current_active_user", token |-> create_access_token(1, StartTime)] }

\* the clock steps while requests are in flight
ConcurrentClockSteps == {1, AccessTTL}

TokenOf(req) == IF req.form = "refresh" THEN req.refresh_token ELSE req.token

\* a store that holds the row a lookup returned, and nothing else
StoreOf(row) ==
    [id \in UserIds |-> IF row # None /\ row.id = id THEN row ELSE None]

\* refresh from the returned row on
refresh_resumed(refresh_token, user, t) ==
    LET req == [form |-> "refresh", refresh_token |-> refresh_token] IN
    IF user = None \/ ~user.is_active
    THEN Response("refresh", req, 401, "HTTPException",
                  "User no longer exists or is inactive",
                  None, None, <<"decode_token", "get_user_by_id">>)
    ELSE Response("refresh", req, 200, "Token", "",
                  create_access_token(user.id, t), refresh_token,
                  <<"decode_token", "get_user_by_id", "create_access_token">>)

\* get_current_user and get_current_active_user from the returned row on
get_current_active_user_resumed(user) ==
    IF user = None
    THEN [status |-> 404, kind |-> "HTTPException", detail |-> "User not found",
          user |-> None, steps |-> <<"decode_token", "get_user_by_id">>]
    ELSE IF ~user.is_active
    THEN [status |-> 403, kind |-> "HTTPException", detail |-> "Inactive user account",
          user |-> None, steps |-> <<"decode_token", "get_user_by_id">>]
    ELSE [status |-> 200, kind |-> "User", detail |-> "", user |-> user,
          steps |-> <<"decode_token", "get_user_by_id">>]

\* the response of a handler that resumes with the row its lookup returned
Resumed(req, row, t) ==
    CASE req.form = "login"   -> login_user(StoreOf(row), req.email, req.password, t)
      [] req.form = "refresh" -> refresh_resumed(req.refresh_token, row, t)
      [] OTHER                -> DependencyResponse(req.form, req.token,
                                                    get_current_active_user_resumed(row))

InitConcurrent ==
    /\ users = [id \in UserIds |->
                   IF id = 1 THEN UserRow(1, hash_password("P@ss1234", "salt1"), TRUE)
                   ELSE None]
    /\ now = StartTime
    /\ resp = Response("none", NoRequest, 0, "none", "", None, None, <<>>)
    /\ settings = Settings(EnvUnset)
    /\ inflight = [s \in Slots |-> Idle]

\* the request arrives and runs to its await; a token the codec rejects
\* ends the request there
Receive(s, req) ==
    /\ Running
    /\ inflight[s].pc = "idle"
    /\ inflight' = [inflight EXCEPT ![s] =
          IF req.form = "login"
          THEN [pc |-> "awaiting", req |-> req]
          ELSE LET d == decode_token(TokenOf(req), ExpectedKind(req.form), now) IN
               IF d.ok
               THEN [pc |-> "awaiting", req |-> req, t0 |-> now, d |-> d]
               ELSE [pc |-> "done", req |-> req,
                     out |-> AnswerTo(req.form, users, TokenOf(req), now)]]
    /\ UNCHANGED <<users, now, resp, settings>>

\* the query of the suspended request runs against the store
Lookup(s) ==
    /\ inflight[s].pc = "awaiting"
    /\ inflight' = [inflight EXCEPT ![s] =
          [pc |-> "resuming"] @@
          [row |-> IF inflight[s].req.form = "login"
                   THEN get_user_by_email(users, inflight[s].req.email)
                   ELSE get_user_by_id(users, int(inflight[s].d.payload.sub))] @@
          inflight[s]]
    /\ UNCHANGED <<users, now, resp, settings>>

\* mutant: the returned row is kept in one place that the requests share
ResumeSharingRow(s) ==
    /\ inflight[s].pc = "resuming"
    /\ LET o   == IF s = 1 THEN 2 ELSE 1
           row == IF inflight[o].pc = "resuming" THEN inflight[o].row
                  ELSE inflight[s].row
       IN inflight' = [inflight EXCEPT ![s] =
             [pc |-> "done", req |-> inflight[s].req,
              out |-> Resumed(inflight[s].req, row, now)]]
    /\ UNCHANGED <<users, now, resp, settings>>

\* the coroutine resumes with the row and runs to its response
Resume(s) ==
    /\ inflight[s].pc = "resuming"
    /\ inflight' = [inflight EXCEPT ![s] =
          [pc |-> "done", req |-> inflight[s].req,
           out |-> Resumed(inflight[s].req, inflight[s].row, now)]]
    /\ UNCHANGED <<users, now, resp, settings>>

\* the response is sent
Respond(s) ==
    /\ inflight[s].pc = "done"
    /\ inflight' = [inflight EXCEPT ![s] = Idle]
    /\ UNCHANGED <<users, now, resp, settings>>

NextConcurrent ==
    \/ \E s \in Slots, req \in ConcurrentRequests : Receive(s, req)
    \/ \E s \in Slots : Lookup(s)
    \/ \E s \in Slots : Resume(s)
    \/ \E s \in Slots : Respond(s)
    \/ \E b \in BOOLEAN : SetActive(1, b)
    \/ DeleteUser(1)
    \/ \E d \in ConcurrentClockSteps : Advance(d)

SpecConcurrent == InitConcurrent /\ [][NextConcurrent]_vars

(***************************************************************************)
(* C27: under any interleaving of login, refresh and access-check          *)
(* requests with each other, with changes of the store and with the clock, *)
(* the response of each request is the one the handler computes alone from *)
(* the request, the clock reading of its decode, the row its lookup        *)
(* returned and the clock reading at which it resumed; when the clock did  *)
(* not move in between, it is the response of the handler run in one piece *)
(* against a store holding that row.                                       *)
(***************************************************************************)
Alone(req, t0, row, t1) ==
    IF req.form = "login"
    THEN login_user(StoreOf(row), req.email, req.password, t1)
    ELSE IF ~decode_token(TokenOf(req), ExpectedKind(req.form), t0).ok
         THEN AnswerTo(req.form, StoreOf(row), TokenOf(req), t0)
         ELSE Resumed(req, row, t1)

C28_IssuanceSafety ==
    [][ /\ (Served("login") /\ ~NoTokens(resp'))
           => LET row == get_user_by_email(users, resp'.req.email) IN
              /\ row # None
              /\ row.is_active
              /\ verify_password(resp'.req.password, row.hashed_password).value
              /\ resp'.access_token.payload.sub = str(row.id)
              /\ resp'.refresh_token.payload.sub = str(row.id)
        /\ (Served("refresh") /\ resp'.access_token # None)
           => LET tok == resp'.req.refresh_token IN
              /\ IsMinted(tok, "refresh")
              /\ now < tok.payload.exp
              /\ SubjectRow(users, tok) # None
              /\ SubjectRow(users, tok).is_active
              /\ resp'.access_token.payload.sub = tok.payload.sub
        /\ ((Served("login") \/ Served("refresh")) /\ resp'.status # 200)
           => NoTokens(resp') ]_vars

(***************************************************************************)
(* C29: the access token a refresh mints is issued at the refresh time and *)
(* expires exactly AccessTTL later, whatever lifetime the presented        *)
(* refresh token has left; it is accepted until then, also after the       *)
(* refresh token's exp.                                                    *)
(***************************************************************************)
C29_RefreshedAccessNotCapped ==
    [][ (Served("refresh") /\ resp'.status = 200)
        => LET a == resp'.access_token
               r == resp'.req.refresh_token
           IN
           /\ a.payload.iat = now
           /\ a.payload.exp = now + AccessTTL
           /\ \A t \in {now, r.payload.exp + 1, a.payload.exp - 1} :
                 (now <= t /\ t < a.payload.exp)
                 => decode_token(a, "access", t).ok ]_vars

\* a refresh one second before the refresh token expires returned an access
\* token that is accepted when the refresh token no longer is
C29_Witness ==
    /\ resp.op = "refresh"
    /\ resp.status = 200
    /\ resp.access_token.payload.iat = now
    /\ LET a == resp.access_token
           r == resp.req.refresh_token
       IN
       /\ now < r.payload.exp
       /\ r.payload.exp < a.payload.exp
       /\ decode_token(a, "access", r.payload.exp + 1).ok
       /\ ~decode_token(r, "refresh", r.payload.exp + 1).ok

(***************************************************************************)
(* C30: a refresh with a token that decodes gets the same status, kind and *)
(* message when the row of its subject is missing as when the row exists   *)
(* and is inactive.                                                        *)
(***************************************************************************)
C30_MissingAndInactiveAlike ==
    [][ (/\ Served("refresh")
         /\ decode_token(resp'.req.refresh_token, "refresh", now).ok)
        => LET tok     == resp'.req.refresh_token
               id      == int(tok.payload.sub)
               missing == [users EXCEPT ![id] = None]
               idle    == [users EXCEPT ![id] =
                              UserRow(id, hash_password("P@ss1234", "salt1"), FALSE)]
           IN
           /\ Outward(refresh(missing, tok, now)) = Outward(refresh(idle, tok, now))
           /\ refresh(missing, tok, now).status # 200
           /\ (SubjectRow(users, tok) = None \/ ~SubjectRow(users, tok).is_active)
              => /\ Outward(resp') = Outward(refresh(missing, tok, now))
                 /\ Outward(resp') = Outward(refresh(idle, tok, now)) ]_vars

\* a refresh was refused because the row is gone while the other user is
\* inactive, and a refresh for that user gets the same answer
C30_Witness ==
    /\ resp.op = "refresh"
    /\ resp.status = 401
    /\ decode_token(resp.req.refresh_token, "refresh", now).ok
    /\ SubjectRow(users, resp.req.refresh_token) = None
    /\ \E id \in UserIds :
          /\ users[id] # None
          /\ ~users[id].is_active
          /\ Outward(refresh(users, create_refresh_token(id, StartTime), now))
                = Outward(resp)

=============================================================================
